---- MODULE Spec2Model ----
(***************************************************************************)
(* sakilaAPI: the customer and rental handlers of src/main.py and the      *)
(* register/login handlers of src/app/api/v1/auth.py, run by client        *)
(* requests against one relational store.  Every handler is a sequence of  *)
(* SQL statements on its own connection (autocommit off); a statement is   *)
(* one atomic step on the store, the Python between two statements belongs *)
(* to the step of the statement before it.                                 *)
(***************************************************************************)
EXTENDS Integers, Sequences, FiniteSets, TLC

\* ------------------------------------------------------------------ bounds
MaxCustomers == 2      \* customer ids the store hands out
MaxRentals == 1        \* rental ids the store hands out
MaxTime == 2           \* values NOW() takes

\* The clients: Spec runs both concurrently, SpecSeq runs c1 alone.
Procs == {"c1", "c2"}
SeqProcs == {"c1"}

\* Optional[T] / a nullable column: None or one value.
None == {}
Some(v) == {v}
TheValue(o) == CHOOSE v \in o : TRUE

\* --------------------------------------------------- reference tables (§3)
\* Rows of the tables the handlers only refer to by foreign key.
StoreIds == {1, 2}
AddressIds == {1, 2}
InventoryIds == {1}
StaffIds == {1}

VARIABLES
    customer,        \* committed rows of table customer
    rental,          \* committed rows of table rental
    lastCustomerId,  \* AUTO_INCREMENT of customer
    lastRentalId,    \* AUTO_INCREMENT of rental
    now,             \* the store's clock, NOW()
    pc,              \* pc[p]: the statement client p's handler runs next
    req,             \* req[p]: the request p's handler serves
    conn,            \* conn[p]: p's connection is open
    pend,            \* pend[p]: the uncommitted write of p's transaction
    lastrowid,       \* lastrowid[p]: cursor.lastrowid
    resp,            \* resp[p]: how p's last request ended
    pre,             \* pre[p]: what the client that runs alone remembers:
                     \* the time and the committed tables when its request
                     \* began, and the customers it has created
    user,            \* committed rows of table user
    lastUserId       \* AUTO_INCREMENT of user

dbvars == <<customer, rental, lastCustomerId, lastRentalId>>
authvars == <<user, lastUserId>>
vars == <<customer, rental, lastCustomerId, lastRentalId, now, pc, req, conn,
          pend, lastrowid, resp, pre, user, lastUserId>>

\* ------------------------------------------------------------ the schemas
\* CustomerCreate with active defaulting to False.
CustomerCreateInactive(body) ==
    [store_id |-> body.store_id,
     first_name |-> body.first_name,
     last_name |-> body.last_name,
     email |-> body.email,
     address_id |-> body.address_id,
     active |-> IF body.active = None THEN FALSE ELSE TheValue(body.active)]

\* class CustomerCreate: email defaults to None, active to True.
CustomerCreate(body) ==
    [store_id |-> body.store_id,
     first_name |-> body.first_name,
     last_name |-> body.last_name,
     email |-> body.email,
     address_id |-> body.address_id,
     active |-> IF body.active = None THEN TRUE ELSE TheValue(body.active)]

\* class CustomerResponse, built from a row of customer: active=bool(row[6]).
CustomerResponse(row) ==
    [store_id |-> row.store_id,
     first_name |-> row.first_name,
     last_name |-> row.last_name,
     email |-> row.email,
     address_id |-> row.address_id,
     active |-> (row.active # 0),
     customer_id |-> row.customer_id,
     create_date |-> row.create_date,
     last_update |-> row.last_update]

\* class RentalResponse, built from a row of rental.
RentalResponse(row) ==
    [customer_id |-> row.customer_id,
     last_update |-> row.last_update,
     rental_id |-> row.rental_id,
     rental_date |-> row.rental_date,
     inventory_id |-> row.inventory_id,
     return_date |-> row.return_date,
     staff_id |-> row.staff_id]

\* ------------------------------------------------------------- the store
\* A transaction's uncommitted write: the table, the ids of the rows it
\* replaces or removes, the rows it puts, the customer ids its foreign-key
\* check read.
NoWrite == [tab |-> "none", del |-> {}, put |-> {}, ref |-> {}]

\* SELECT * FROM customer WHERE customer_id = id; fetchone() (None: {}).
SelectCustomer(id) == {r \in customer : r.customer_id = id}
\* SELECT * FROM rental WHERE rental_id = id; fetchone().
SelectRental(id) == {r \in rental : r.rental_id = id}

\* Row locks, held from the writing statement to the end of the transaction.
\* A writer of customer id holds its exclusive lock; an inserter of a rental
\* holds a shared lock on the customer row its foreign key refers to.
CustomerXLockedByOther(p, id) ==
    \E q \in Procs \ {p} : pend[q].tab = "customer" /\ id \in pend[q].del
CustomerSLockedByOther(p, id) ==
    \E q \in Procs \ {p} : id \in pend[q].ref
RentalXLockedByOther(p, id) ==
    \E q \in Procs \ {p} : pend[q].tab = "rental" /\ id \in pend[q].del

\* conn.commit(): the transaction's write becomes the committed rows.
CommitCustomer(w) ==
    IF w.tab = "customer"
    THEN {r \in customer : r.customer_id \notin w.del} \cup w.put
    ELSE customer
CommitRental(w) ==
    IF w.tab = "rental"
    THEN {r \in rental : r.rental_id \notin w.del} \cup w.put
    ELSE rental

\* The foreign keys of customer (to store and address) and of rental (to
\* inventory, customer and staff), and the restriction they put on deleting
\* a customer.
CustomerForeignKeysOk(row) ==
    row.store_id \in StoreIds /\ row.address_id \in AddressIds
RentalForeignKeysOk(row) ==
    /\ row.inventory_id \in InventoryIds
    /\ row.staff_id \in StaffIds
    /\ SelectCustomer(row.customer_id) # {}
CustomerReferenced(id) == \E r \in rental : r.customer_id = id

\* What a client remembers of its requests (only the client that runs alone
\* keeps a history).
NoHistory ==
    [customer |-> {},
     rental |-> {},
     history |-> FALSE,
     at |-> 0,
     created |-> {}]

\* ------------------------------------------------------ how a request ends
HTTPException(status_code, message) ==
    [body |-> {},
     kind |-> "HTTPException",
     status |-> status_code,
     detail |-> message,
     headers |-> {}]
Response(status_code, content) ==
    [body |-> content,
     kind |-> "response",
     status |-> status_code,
     detail |-> "",
     headers |-> {}]
\* An exception no handler catches: the framework answers a bare 500.
Unhandled(exc) ==
    [body |-> {}, kind |-> exc, status |-> 500, detail |-> "", headers |-> {}]
NoResponse ==
    [body |-> {},
     kind |-> "none",
     status |-> 0,
     detail |-> "",
     headers |-> {}]

\* get_db_connection with the close at the end of the try block instead of
\* in a finally: an exception leaving the with-block skips it.
FinishWithoutFinally(p, r) ==
    /\ resp' = [resp EXCEPT ![p] = r]
    /\ pc' = [pc EXCEPT ![p] = "idle"]
    /\ conn' = [conn EXCEPT ![p] = IF r.kind = "response" THEN FALSE ELSE @]
    /\ pend' = [pend EXCEPT ![p] = NoWrite]

\* get_db_connection's finally: the connection is closed, which rolls back
\* what the transaction has not committed.
Finish(p, r) ==
    /\ resp' = [resp EXCEPT ![p] = r]
    /\ pc' = [pc EXCEPT ![p] = "idle"]
    /\ conn' = [conn EXCEPT ![p] = FALSE]
    /\ pend' = [pend EXCEPT ![p] = NoWrite]

\* The handler goes on to its next statement.
Goto(p, label) ==
    /\ pc' = [pc EXCEPT ![p] = label]
    /\ UNCHANGED <<conn, resp>>

\* get_db_connection's except: a pymysql.Error e, raised by connect or
\* leaving the with-block, becomes HTTPException(500, "Database error: e").
DatabaseError(p, e) == Finish(p, HTTPException(500, e))
ConnectFailed == "Database error: OperationalError"
StatementRejected == "Database error: IntegrityError"

\* ------------------------------------------------------- customer handlers
\* create_customer: INSERT INTO customer (...) VALUES (..., NOW()).
create_customer_insert(p) ==
    /\ pc[p] = "cc_insert"
    /\ LET c == CustomerCreate(req[p].body)
           id == lastCustomerId + 1
           row == [store_id |-> c.store_id,
                   first_name |-> c.first_name,
                   last_name |-> c.last_name,
                   email |-> c.email,
                   address_id |-> c.address_id,
                   active |-> IF c.active THEN 1 ELSE 0,
                   customer_id |-> id,
                   create_date |-> now,
                   last_update |-> now]
       IN  IF CustomerForeignKeysOk(row)
           THEN /\ lastCustomerId' = id
                /\ lastrowid' = [lastrowid EXCEPT ![p] = id]
                /\ pend' = [pend EXCEPT ![p] =
                       [tab |-> "customer", del |-> {id}, put |-> {row},
                        ref |-> {}]]
                /\ Goto(p, "cc_commit")
           ELSE /\ Finish(p, HTTPException(400, "Integrity error"))
                /\ UNCHANGED <<lastCustomerId, lastrowid>>
    /\ UNCHANGED <<customer, rental, lastRentalId, now, req, pre, authvars>>

\* create_customer: conn.commit(); customer_id = cursor.lastrowid.
create_customer_commit(p) ==
    /\ pc[p] = "cc_commit"
    /\ customer' = CommitCustomer(pend[p])
    /\ pend' = [pend EXCEPT ![p] = NoWrite]
    /\ Goto(p, "cc_fetch")
    /\ UNCHANGED <<rental, lastCustomerId, lastRentalId, now, req, lastrowid,
                   pre, authvars>>

\* create_customer: the re-fetch by the generated id and the response.
create_customer_fetch(p) ==
    /\ pc[p] = "cc_fetch"
    /\ LET row == SelectCustomer(lastrowid[p])
           made == {CustomerResponse(r) : r \in row}
       IN  /\ IF row = {}
              THEN Finish(p, HTTPException(500,
                              "Failed to retrieve created customer"))
              ELSE Finish(p, Response(201, made))
           /\ pre' = [pre EXCEPT ![p].created =
                  IF pre[p].history THEN @ \cup made ELSE {}]
    /\ UNCHANGED <<dbvars, now, req, lastrowid, authvars>>

\* get_customer.
get_customer(p) ==
    /\ pc[p] = "gc_select"
    /\ LET row == SelectCustomer(req[p].id)
       IN  IF row = {}
           THEN Finish(p, HTTPException(404, "Customer not found"))
           ELSE Finish(p, Response(200, {CustomerResponse(r) : r \in row}))
    /\ UNCHANGED <<dbvars, now, req, lastrowid, pre, authvars>>

\* update_customer: the columns of the SET clause, one per field of the
\* request that is not None.
Updates(c) ==
    {f \in {"store_id", "first_name", "last_name", "email", "address_id",
            "active"} : c[f] # None}

\* An UPDATE that sets every column of the request, NULL for a field the
\* request leaves out.
UpdatedCustomerEveryField(row, c) ==
    [f \in DOMAIN row |->
        IF f = "last_update" THEN now
        ELSE IF f = "email" THEN c[f]
        ELSE IF f \in Updates(c)
             THEN IF f = "active"
                  THEN IF TheValue(c[f]) THEN 1 ELSE 0
                  ELSE TheValue(c[f])
             ELSE row[f]]

\* UPDATE customer SET <updates>, last_update = NOW(): the row it leaves.
UpdatedCustomer(row, c) ==
    [f \in DOMAIN row |->
        IF f = "last_update" THEN now
        ELSE IF f \in Updates(c)
             THEN IF f = "active"
                  THEN IF TheValue(c[f]) THEN 1 ELSE 0
                  ELSE IF f = "email" THEN c[f] ELSE TheValue(c[f])
             ELSE row[f]]

\* update_customer with the field list examined before the existence check.
update_customer_check_fields_first(p) ==
    /\ pc[p] = "uc_check"
    /\ IF Updates(req[p].body) = {}
       THEN Finish(p, HTTPException(400, "No data to update"))
       ELSE IF SelectCustomer(req[p].id) = {}
            THEN Finish(p, HTTPException(404, "Customer not found"))
            ELSE Goto(p, "uc_update") /\ UNCHANGED pend
    /\ UNCHANGED <<dbvars, now, req, lastrowid, pre, authvars>>

\* update_customer: the existence check, then the field list (400 when it
\* is empty).
update_customer_check(p) ==
    /\ pc[p] = "uc_check"
    /\ IF SelectCustomer(req[p].id) = {}
       THEN Finish(p, HTTPException(404, "Customer not found"))
       ELSE IF Updates(req[p].body) = {}
            THEN Finish(p, HTTPException(400, "No data to update"))
            ELSE Goto(p, "uc_update") /\ UNCHANGED pend
    /\ UNCHANGED <<dbvars, now, req, lastrowid, pre, authvars>>

\* update_customer: UPDATE customer SET ... WHERE customer_id = %s.  The
\* statement waits for the row's lock and writes the row as committed now;
\* it matches no row when the customer is gone.
update_customer_update(p) ==
    /\ pc[p] = "uc_update"
    /\ ~CustomerXLockedByOther(p, req[p].id)
    /\ ~CustomerSLockedByOther(p, req[p].id)
    /\ LET cur == SelectCustomer(req[p].id)
           new == {UpdatedCustomer(r, req[p].body) : r \in cur}
       IN  IF \E r \in new : ~CustomerForeignKeysOk(r)
           THEN DatabaseError(p, StatementRejected)
           ELSE /\ pend' = [pend EXCEPT ![p] =
                       IF cur = {} THEN NoWrite
                       ELSE [tab |-> "customer", del |-> {req[p].id},
                             put |-> new, ref |-> {}]]
                /\ Goto(p, "uc_commit")
    /\ UNCHANGED <<dbvars, now, req, lastrowid, pre, authvars>>

\* update_customer: conn.commit().
update_customer_commit(p) ==
    /\ pc[p] = "uc_commit"
    /\ customer' = CommitCustomer(pend[p])
    /\ pend' = [pend EXCEPT ![p] = NoWrite]
    /\ Goto(p, "uc_fetch")
    /\ UNCHANGED <<rental, lastCustomerId, lastRentalId, now, req, lastrowid,
                   pre, authvars>>

\* update_customer: the re-fetch and the response; row[0] of a missing row
\* raises TypeError.
update_customer_fetch(p) ==
    /\ pc[p] = "uc_fetch"
    /\ LET row == SelectCustomer(req[p].id)
       IN  IF row = {}
           THEN Finish(p, Unhandled("TypeError"))
           ELSE Finish(p, Response(200, {CustomerResponse(r) : r \in row}))
    /\ UNCHANGED <<dbvars, now, req, lastrowid, pre, authvars>>

\* delete_customer: the existence check.
delete_customer_check(p) ==
    /\ pc[p] = "dc_check"
    /\ IF SelectCustomer(req[p].id) = {}
       THEN Finish(p, HTTPException(404, "Customer not found"))
       ELSE Goto(p, "dc_delete") /\ UNCHANGED pend
    /\ UNCHANGED <<dbvars, now, req, lastrowid, pre, authvars>>

\* delete_customer without its except clause: the IntegrityError reaches
\* get_db_connection.
delete_customer_delete_uncaught(p) ==
    /\ pc[p] = "dc_delete"
    /\ ~CustomerXLockedByOther(p, req[p].id)
    /\ ~CustomerSLockedByOther(p, req[p].id)
    /\ LET cur == SelectCustomer(req[p].id)
       IN  IF cur # {} /\ CustomerReferenced(req[p].id)
           THEN DatabaseError(p, StatementRejected)
           ELSE /\ pend' = [pend EXCEPT ![p] =
                       IF cur = {} THEN NoWrite
                       ELSE [tab |-> "customer", del |-> {req[p].id},
                             put |-> {}, ref |-> {}]]
                /\ Goto(p, "dc_commit")
    /\ UNCHANGED <<dbvars, now, req, lastrowid, pre, authvars>>

\* delete_customer: DELETE FROM customer WHERE customer_id = %s; an
\* IntegrityError becomes 409.
delete_customer_delete(p) ==
    /\ pc[p] = "dc_delete"
    /\ ~CustomerXLockedByOther(p, req[p].id)
    /\ ~CustomerSLockedByOther(p, req[p].id)
    /\ LET cur == SelectCustomer(req[p].id)
       IN  IF cur # {} /\ CustomerReferenced(req[p].id)
           THEN Finish(p, HTTPException(409,
                           "Cannot delete customer with existing rentals"))
           ELSE /\ pend' = [pend EXCEPT ![p] =
                       IF cur = {} THEN NoWrite
                       ELSE [tab |-> "customer", del |-> {req[p].id},
                             put |-> {}, ref |-> {}]]
                /\ Goto(p, "dc_commit")
    /\ UNCHANGED <<dbvars, now, req, lastrowid, pre, authvars>>

\* delete_customer: conn.commit(); return None (204).
delete_customer_commit(p) ==
    /\ pc[p] = "dc_commit"
    /\ customer' = CommitCustomer(pend[p])
    /\ Finish(p, Response(204, {}))
    /\ UNCHANGED <<rental, lastCustomerId, lastRentalId, now, req, lastrowid,
                   pre, authvars>>

\* --------------------------------------------------------- rental handlers
\* The row INSERT INTO rental (rental_date, inventory_id, customer_id,
\* staff_id) makes of a RentalCreate: return_date is left to its default,
\* NULL.
NewRentalReturned(id, body) ==
    [customer_id |-> body.customer_id,
     last_update |-> now,
     rental_id |-> id,
     rental_date |-> body.rental_date,
     inventory_id |-> body.inventory_id,
     return_date |-> Some(now),
     staff_id |-> body.staff_id]
NewRental(id, body) ==
    [customer_id |-> body.customer_id,
     last_update |-> now,
     rental_id |-> id,
     rental_date |-> body.rental_date,
     inventory_id |-> body.inventory_id,
     return_date |-> None,
     staff_id |-> body.staff_id]

\* create_rental: the INSERT.  Its foreign-key check waits for a writer of
\* the customer row.
create_rental_insert(p) ==
    /\ pc[p] = "cr_insert"
    /\ ~CustomerXLockedByOther(p, req[p].body.customer_id)
    /\ LET b == req[p].body
           id == lastRentalId + 1
           row == NewRental(id, b)
       IN  IF RentalForeignKeysOk(row)
           THEN /\ lastRentalId' = id
                /\ lastrowid' = [lastrowid EXCEPT ![p] = id]
                /\ pend' = [pend EXCEPT ![p] =
                       [tab |-> "rental", del |-> {id}, put |-> {row},
                        ref |-> {b.customer_id}]]
                /\ Goto(p, "cr_commit")
           ELSE /\ Finish(p, HTTPException(400, "Integrity error"))
                /\ UNCHANGED <<lastRentalId, lastrowid>>
    /\ UNCHANGED <<customer, rental, lastCustomerId, now, req, pre, authvars>>

\* create_rental: conn.commit(); rental_id = cursor.lastrowid.
create_rental_commit(p) ==
    /\ pc[p] = "cr_commit"
    /\ rental' = CommitRental(pend[p])
    /\ pend' = [pend EXCEPT ![p] = NoWrite]
    /\ Goto(p, "cr_fetch")
    /\ UNCHANGED <<customer, lastCustomerId, lastRentalId, now, req,
                   lastrowid, pre, authvars>>

\* create_rental: the re-fetch and the response.
create_rental_fetch(p) ==
    /\ pc[p] = "cr_fetch"
    /\ LET row == SelectRental(lastrowid[p])
       IN  IF row = {}
           THEN Finish(p, Unhandled("TypeError"))
           ELSE Finish(p, Response(201, {RentalResponse(r) : r \in row}))
    /\ UNCHANGED <<dbvars, now, req, lastrowid, pre, authvars>>

\* get_rental.
get_rental(p) ==
    /\ pc[p] = "gr_select"
    /\ LET row == SelectRental(req[p].id)
       IN  IF row = {}
           THEN Finish(p, HTTPException(404, "Rental not found"))
           ELSE Finish(p, Response(200, {RentalResponse(r) : r \in row}))
    /\ UNCHANGED <<dbvars, now, req, lastrowid, pre, authvars>>

\* return_rental without its check of row[1].
return_rental_check_unguarded(p) ==
    /\ pc[p] = "rr_check"
    /\ IF SelectRental(req[p].id) = {}
       THEN Finish(p, HTTPException(404, "Rental not found"))
       ELSE Goto(p, "rr_update") /\ UNCHANGED pend
    /\ UNCHANGED <<dbvars, now, req, lastrowid, pre, authvars>>

\* return_rental: SELECT rental_id, return_date; 404 when there is no row,
\* 400 when row[1] is not None.
return_rental_check(p) ==
    /\ pc[p] = "rr_check"
    /\ LET row == SelectRental(req[p].id)
       IN  IF row = {}
           THEN Finish(p, HTTPException(404, "Rental not found"))
           ELSE IF \E r \in row : r.return_date # None
                THEN Finish(p, HTTPException(400, "Rental already returned"))
                ELSE Goto(p, "rr_update") /\ UNCHANGED pend
    /\ UNCHANGED <<dbvars, now, req, lastrowid, pre, authvars>>

\* UPDATE rental SET return_date = NOW(), last_update = NOW(): the row it
\* leaves.
ReturnedRental(row) ==
    [row EXCEPT !.return_date = Some(now), !.last_update = now]

\* return_rental: UPDATE rental SET ... WHERE rental_id = %s.  The statement
\* waits for the row's lock and writes the row as committed now.
return_rental_update(p) ==
    /\ pc[p] = "rr_update"
    /\ ~RentalXLockedByOther(p, req[p].id)
    /\ LET cur == SelectRental(req[p].id)
       IN  pend' = [pend EXCEPT ![p] =
               IF cur = {} THEN NoWrite
               ELSE [tab |-> "rental", del |-> {req[p].id},
                     put |-> {ReturnedRental(r) : r \in cur}, ref |-> {}]]
    /\ Goto(p, "rr_commit")
    /\ UNCHANGED <<dbvars, now, req, lastrowid, pre, authvars>>

\* return_rental: conn.commit().
return_rental_commit(p) ==
    /\ pc[p] = "rr_commit"
    /\ rental' = CommitRental(pend[p])
    /\ pend' = [pend EXCEPT ![p] = NoWrite]
    /\ Goto(p, "rr_fetch")
    /\ UNCHANGED <<customer, lastCustomerId, lastRentalId, now, req,
                   lastrowid, pre, authvars>>

\* return_rental: the re-fetch and the response.
return_rental_fetch(p) ==
    /\ pc[p] = "rr_fetch"
    /\ LET row == SelectRental(req[p].id)
       IN  IF row = {}
           THEN Finish(p, Unhandled("TypeError"))
           ELSE Finish(p, Response(200, {RentalResponse(r) : r \in row}))
    /\ UNCHANGED <<dbvars, now, req, lastrowid, pre, authvars>>

\* ------------------------------------------------------------ auth handlers
\* The minutes a token lives (app.core.security).
ACCESS_TOKEN_EXPIRE_MINUTES == 2

\* get_password_hash: a salted one-way hash; verify_password recomputes it
\* with the salt of the stored hash.
Salts == {"s1", "s2"}
get_password_hash(password, salt) == [salt |-> salt, digest |-> <<salt, password>>]
verify_password(password, hashed) ==
    hashed = get_password_hash(password, hashed.salt)

\* authenticate_user: the stored user of that name when the password
\* verifies, else False ({}).
authenticate_user(username, password) ==
    {u \in user : /\ u.username = username
                  /\ verify_password(password, u.hashed_password)}

\* create_access_token: the signed claims, the expiry expires_delta after
\* now.
create_access_token(data, expires_delta) ==
    [sub |-> data.sub, exp |-> now + expires_delta, alg |-> "HS256"]

\* The unique keys of user: username and email.
UserConflicts(rows, row) ==
    {u \in rows : u.username = row.username \/ u.email = row.email}

\* An insert that replaces the stored user of the same name or e-mail.
register_insert_replace(p) ==
    /\ pc[p] = "rg_insert"
    /\ \E salt \in Salts :
        LET id == lastUserId + 1
            row == [email |-> req[p].body.email,
                    username |-> req[p].body.username,
                    hashed_password |->
                        get_password_hash(req[p].body.password, salt),
                    user_id |-> id]
        IN  /\ \A q \in Procs \ {p} : UserConflicts(pend[q].put, row) = {}
            /\ lastUserId' = id
            /\ pend' = [pend EXCEPT ![p] =
                   [tab |-> "user",
                    del |-> {id} \cup
                            {u.user_id : u \in UserConflicts(user, row)},
                    put |-> {row}, ref |-> {}]]
            /\ Goto(p, "rg_commit")
    /\ UNCHANGED <<dbvars, now, req, lastrowid, pre, user>>

\* register: hash the password; INSERT INTO user (username, email,
\* hashed_password).  The insert waits for an uncommitted insert of the same
\* key; an IntegrityError becomes 400.
register_insert(p) ==
    /\ pc[p] = "rg_insert"
    /\ \E salt \in Salts :
        LET id == lastUserId + 1
            row == [email |-> req[p].body.email,
                    username |-> req[p].body.username,
                    hashed_password |->
                        get_password_hash(req[p].body.password, salt),
                    user_id |-> id]
        IN  /\ \A q \in Procs \ {p} : UserConflicts(pend[q].put, row) = {}
            /\ IF UserConflicts(user, row) = {}
               THEN /\ lastUserId' = id
                    /\ pend' = [pend EXCEPT ![p] =
                           [tab |-> "user", del |-> {id}, put |-> {row},
                            ref |-> {}]]
                    /\ Goto(p, "rg_commit")
               ELSE /\ Finish(p, HTTPException(400,
                           "El usuario o el e-mail ya existen en la base de datos"))
                    /\ UNCHANGED lastUserId
    /\ UNCHANGED <<dbvars, now, req, lastrowid, pre, user>>

\* register: conn.commit(); the 201 response.
register_commit(p) ==
    /\ pc[p] = "rg_commit"
    /\ user' = {u \in user : u.user_id \notin pend[p].del} \cup pend[p].put
    /\ Finish(p, Response(201,
                  {[message |-> "Usuario creado correctamente"]}))
    /\ UNCHANGED <<dbvars, now, req, lastrowid, pre, lastUserId>>

\* The 401 of login, with its challenge header.
Unauthorized ==
    [HTTPException(401, "Credenciales invalidas")
        EXCEPT !.headers = {<<"WWW-Authenticate", "Bearer">>}]

\* The token response of login.
Token(access_token) ==
    Response(200, {[access_token |-> access_token, token_type |-> "bearer"]})

\* login that looks the user up by name alone.
login_without_password(p) ==
    /\ pc[p] = "lg_auth"
    /\ IF \A u \in user : u.username # req[p].body.username
       THEN Finish(p, Unauthorized)
       ELSE Finish(p, Token(create_access_token(
                [sub |-> req[p].body.username], ACCESS_TOKEN_EXPIRE_MINUTES)))
    /\ UNCHANGED <<dbvars, now, req, lastrowid, pre, authvars>>

\* login: authenticate_user, then 401 or the token.
login(p) ==
    /\ pc[p] = "lg_auth"
    /\ IF authenticate_user(req[p].body.username, req[p].body.password) = {}
       THEN Finish(p, Unauthorized)
       ELSE Finish(p, Token(create_access_token(
                [sub |-> req[p].body.username], ACCESS_TOKEN_EXPIRE_MINUTES)))
    /\ UNCHANGED <<dbvars, now, req, lastrowid, pre, authvars>>

\* ------------------------------------------------------------ the requests
\* A request: the handler, the id of its path, its body.
Request(handler, path_id, json) ==
    [body |-> json, id |-> path_id, op |-> handler]
NoBody == [none |-> TRUE]
NoUpdate ==
    [store_id |-> None, first_name |-> None, last_name |-> None,
     email |-> None, address_id |-> None, active |-> None]

\* What the client that runs alone sends.  Bodies of POST /customers (email
\* and active may be omitted; store 9 does not exist), bodies of
\* PUT /customers/{id} (every field may be omitted), bodies of POST /rentals
\* (inventory 9 does not exist), and the ids of the paths.
SeqInputs ==
    [history |-> TRUE,
     update |->
        {NoUpdate,
         [NoUpdate EXCEPT !.active = Some(FALSE)],
         [store_id |-> Some(2), first_name |-> Some("PAT"),
          last_name |-> Some("JONES"), email |-> Some("pat@x"),
          address_id |-> Some(2), active |-> Some(TRUE)],
         [NoUpdate EXCEPT !.store_id = Some(9)]},
     rentals |-> {1},
     create |->
        {[store_id |-> 1, first_name |-> "MARY", last_name |-> "SMITH",
          email |-> None, address_id |-> 1, active |-> None],
         [store_id |-> 2, first_name |-> "MARY", last_name |-> "SMITH",
          email |-> Some("mary@x"), address_id |-> 1, active |-> Some(FALSE)],
         [store_id |-> 9, first_name |-> "MARY", last_name |-> "SMITH",
          email |-> None, address_id |-> 1, active |-> None]},
     customers |-> {1},
     rent |->
        {[customer_id |-> 1,
          rental_date |-> 1,
          inventory_id |-> 1,
          staff_id |-> 1],
         [customer_id |-> 1,
          rental_date |-> 1,
          inventory_id |-> 9,
          staff_id |-> 1]}]

\* What each of two concurrent clients sends.
ConcInputs ==
    [history |-> FALSE,
     update |-> {NoUpdate, [NoUpdate EXCEPT !.active = Some(FALSE)]},
     rentals |-> {1},
     create |->
        {[store_id |-> 1, first_name |-> "MARY", last_name |-> "SMITH",
          email |-> None, address_id |-> 1, active |-> None]},
     customers |-> {1},
     rent |->
        {[customer_id |-> 1,
          rental_date |-> 1,
          inventory_id |-> 1,
          staff_id |-> 1]}]

\* The first statement of each handler.
Entry(op) ==
    CASE op = "create_customer" -> "cc_insert"
      [] op = "get_customer" -> "gc_select"
      [] op = "update_customer" -> "uc_check"
      [] op = "delete_customer" -> "dc_check"
      [] op = "create_rental" -> "cr_insert"
      [] op = "get_rental" -> "gr_select"
      [] op = "return_rental" -> "rr_check"
      [] op = "register" -> "rg_insert"
      [] op = "login" -> "lg_auth"

\* The ids the store can still hand out to the inserts under way.
IdsLeft(op) ==
    CASE op = "create_customer" ->
            MaxCustomers - lastCustomerId
                - Cardinality({q \in Procs : pc[q] = "cc_insert"})
      [] op = "create_rental" ->
            MaxRentals - lastRentalId
                - Cardinality({q \in Procs : pc[q] = "cr_insert"})
      [] OTHER -> 1

\* The responses of create_customer the client still holds when it sends r:
\* it forgets the one of a customer it asks to update or delete.
Remembered(created, r) ==
    IF r.op \in {"update_customer", "delete_customer"}
    THEN {c \in created : c.customer_id # r.id}
    ELSE created

\* A request arrives: get_db_connection connects, or pymysql.connect raises
\* and the request ends in 500 with no connection.
Begin(p, r, history) ==
    /\ pc[p] = "idle"
    /\ IdsLeft(r.op) > 0
    /\ req' = [req EXCEPT ![p] = r]
    /\ pre' = [pre EXCEPT ![p] =
           IF history
           THEN [customer |-> customer,
                 rental |-> rental,
                 history |-> TRUE,
                 at |-> now,
                 created |-> Remembered(pre[p].created, r)]
           ELSE NoHistory]
    /\ lastrowid' = [lastrowid EXCEPT ![p] = 0]
    /\ \/ /\ conn' = [conn EXCEPT ![p] = TRUE]
          /\ pc' = [pc EXCEPT ![p] = Entry(r.op)]
          /\ resp' = [resp EXCEPT ![p] = NoResponse]
          /\ UNCHANGED pend
       \/ DatabaseError(p, ConnectFailed)
    /\ UNCHANGED <<dbvars, now, authvars>>

\* The store's clock advances.
Tick ==
    /\ now < MaxTime
    /\ now' = now + 1
    /\ UNCHANGED <<dbvars, pc, req, conn, pend, lastrowid, resp, pre,
                   authvars>>

\* One step of client p, which sends the requests of I.
Step(p, I) ==
    \/ \E b \in I.create :
           Begin(p, Request("create_customer", 0, b), I.history)
    \/ \E i \in I.customers :
           Begin(p, Request("get_customer", i, NoBody), I.history)
    \/ \E i \in I.customers, b \in I.update :
           Begin(p, Request("update_customer", i, b), I.history)
    \/ \E i \in I.customers :
           Begin(p, Request("delete_customer", i, NoBody), I.history)
    \/ \E b \in I.rent : Begin(p, Request("create_rental", 0, b), I.history)
    \/ \E i \in I.rentals :
           Begin(p, Request("get_rental", i, NoBody), I.history)
    \/ \E i \in I.rentals :
           Begin(p, Request("return_rental", i, NoBody), I.history)
    \/ create_customer_insert(p)
    \/ create_customer_commit(p)
    \/ create_customer_fetch(p)
    \/ get_customer(p)
    \/ update_customer_check(p)
    \/ update_customer_update(p)
    \/ update_customer_commit(p)
    \/ update_customer_fetch(p)
    \/ delete_customer_check(p)
    \/ delete_customer_delete(p)
    \/ delete_customer_commit(p)
    \/ create_rental_insert(p)
    \/ create_rental_commit(p)
    \/ create_rental_fetch(p)
    \/ get_rental(p)
    \/ return_rental_check(p)
    \/ return_rental_update(p)
    \/ return_rental_commit(p)
    \/ return_rental_fetch(p)

\* What the clients of the auth routes send: bodies of POST /auth/register
\* and forms of POST /auth/token.
Usernames == {"ann", "bob"}
Emails == {"ann@example.com", "bob@example.com"}
Passwords == {"password1", "password2"}

\* A login arrives: the handler itself opens no connection.
BeginLogin(p, r) ==
    /\ pc[p] = "idle"
    /\ req' = [req EXCEPT ![p] = r]
    /\ pc' = [pc EXCEPT ![p] = Entry(r.op)]
    /\ resp' = [resp EXCEPT ![p] = NoResponse]
    /\ UNCHANGED <<dbvars, now, conn, pend, lastrowid, pre, authvars>>

\* One step of client p on the auth routes.
AuthStep(p) ==
    \/ \E u \in Usernames, e \in Emails, w \in Passwords :
           Begin(p, Request("register", 0,
                            [email |-> e, password |-> w, username |-> u]),
                 FALSE)
    \/ \E u \in Usernames, w \in Passwords :
           BeginLogin(p, Request("login", 0,
                                 [password |-> w, username |-> u]))
    \/ register_insert(p)
    \/ register_commit(p)
    \/ login(p)

Init ==
    /\ customer = {}
    /\ rental = {}
    /\ lastCustomerId = 0
    /\ lastRentalId = 0
    /\ now = 1
    /\ pc = [p \in Procs |-> "idle"]
    /\ req = [p \in Procs |-> Request("none", 0, NoBody)]
    /\ conn = [p \in Procs |-> FALSE]
    /\ pend = [p \in Procs |-> NoWrite]
    /\ lastrowid = [p \in Procs |-> 0]
    /\ resp = [p \in Procs |-> NoResponse]
    /\ pre = [p \in Procs |-> NoHistory]
    /\ user = {}
    /\ lastUserId = 0

\* Two clients whose requests interleave statement by statement.
Next == Tick \/ \E p \in Procs : Step(p, ConcInputs)
Spec == Init /\ [][Next]_vars

\* One client: every request ends before the next begins.
NextSeq == Tick \/ \E p \in SeqProcs : Step(p, SeqInputs)
SpecSeq == Init /\ [][NextSeq]_vars

\* Two clients on the auth routes.
NextAuth == Tick \/ \E p \in Procs : AuthStep(p)
SpecAuth == Init /\ [][NextAuth]_vars

\* ================================================================ claims
\* Client p is idle after a request to handler op that reached the store.
Ran(p, op) ==
    /\ pc[p] = "idle"
    /\ req[p].op = op
    /\ resp[p].kind # "none"
    /\ resp[p].detail # ConnectFailed

Succeeded(p, op, status_code) ==
    /\ Ran(p, op)
    /\ resp[p].kind = "response"
    /\ resp[p].status = status_code

\* C1 (as claimed): of two return_rental requests on one rental, at most
\* one is answered 200: no two clients hold a successful return of the same
\* rental.
C1_AtMostOneReturnSucceeds ==
    \A p \in Procs, q \in Procs :
        (/\ p # q
         /\ Succeeded(p, "return_rental", 200)
         /\ Succeeded(q, "return_rental", 200))
        => req[q].id # req[p].id

\* C2: return_rental on a rental that is not returned is answered 200 and
\* leaves return_date and last_update set to the time of the return; on a
\* returned rental it is answered 400 and leaves the row as it was; on an id
\* with no rental it is answered 404 and changes nothing.
C2_ReturnTwice ==
    \A p \in SeqProcs :
        Ran(p, "return_rental") =>
            LET before == {r \in pre[p].rental : r.rental_id = req[p].id}
                after == SelectRental(req[p].id)
            IN  /\ before = {} =>
                       /\ resp[p] = HTTPException(404, "Rental not found")
                       /\ rental = pre[p].rental
                       /\ customer = pre[p].customer
                /\ \A r \in before :
                       IF r.return_date = None
                       THEN /\ Succeeded(p, "return_rental", 200)
                            /\ \E a \in after :
                                   /\ a.return_date # None
                                   /\ a.last_update \in a.return_date
                                   /\ a.last_update \in 1 .. now
                                   /\ resp[p].body = {RentalResponse(a)}
                       ELSE /\ resp[p] =
                                   HTTPException(400, "Rental already returned")
                            /\ after = before

\* C2 witness: a second return of the same rental has been rejected.
C2_SecondReturnRejected ==
    \E p \in SeqProcs :
        /\ Ran(p, "return_rental")
        /\ resp[p].status = 400
        /\ \E r \in rental :
               r.rental_id = req[p].id /\ r.return_date # None

\* C3: a rental is Active (return_date null) or Returned (return_date set);
\* a rental that appears is Active; a Returned rental stays Returned.
C3_ReturnIsOneWay ==
    /\ [](\A r \in rental : Cardinality(r.return_date) <= 1)
    /\ [][/\ \A r \in rental' :
              SelectRental(r.rental_id) = {} => r.return_date = None
          /\ \A r \in rental :
              r.return_date # None =>
                  \E s \in rental' :
                      s.rental_id = r.rental_id /\ s.return_date # None]_vars

\* C3 witness: with a rental Returned, a later request (deleting its
\* customer) has been served and the rental is still Returned.
C3_ReturnedThenServed ==
    \E p \in SeqProcs :
        /\ Ran(p, "delete_customer")
        /\ \E r \in rental : r.return_date # None
        /\ \E r \in pre[p].rental : r.return_date # None

\* The fields a CustomerUpdate may carry, and those body carries.
UpdateFields ==
    {"store_id", "first_name", "last_name", "email", "address_id", "active"}
Supplied(body) == {f \in UpdateFields : body[f] # None}
WithId(rows, id) == {r \in rows : r.customer_id = id}

\* The response shows the fields of body with the values of body, every
\* other field but last_update as in the row old, and a last_update stamped
\* since the request began.
ShowsUpdate(p, shown, old, body) ==
    /\ \A f \in Supplied(body) :
           shown[f] = IF f = "email" THEN body[f] ELSE TheValue(body[f])
    /\ \A f \in (DOMAIN shown \ Supplied(body)) \ {"last_update"} :
           shown[f] = CustomerResponse(old)[f]
    /\ shown.last_update \in pre[p].at .. now

\* The request changed no rental and no customer but, at most, its own.
OthersUnchanged(p) ==
    /\ rental = pre[p].rental
    /\ customer \ WithId(customer, req[p].id)
           = pre[p].customer \ WithId(pre[p].customer, req[p].id)

\* C4 (as claimed): update_customer on an existing customer with a request
\* that supplies some fields is answered 200 with the full updated record:
\* exactly the supplied fields changed to the supplied values, last_update
\* stamped, nothing else changed.
C4_UpdateChangesSupplied ==
    \A p \in SeqProcs :
        (/\ Ran(p, "update_customer")
         /\ Supplied(req[p].body) # {}
         /\ WithId(pre[p].customer, req[p].id) # {})
        => /\ OthersUnchanged(p)
           /\ Succeeded(p, "update_customer", 200)
           /\ \E old \in WithId(pre[p].customer, req[p].id),
                 new \in WithId(customer, req[p].id) :
                  /\ resp[p].body = {CustomerResponse(new)}
                  /\ ShowsUpdate(p, CustomerResponse(new), old, req[p].body)

\* C4 (amended): the same, when the supplied store_id and address_id refer
\* to existing rows; when one does not, the store rejects the UPDATE, the
\* request is answered 500 and no record changes.
C4_UpdateFrame ==
    \A p \in SeqProcs :
        (/\ Ran(p, "update_customer")
         /\ Supplied(req[p].body) # {}
         /\ WithId(pre[p].customer, req[p].id) # {})
        => /\ OthersUnchanged(p)
           /\ IF /\ req[p].body.store_id \subseteq StoreIds
                 /\ req[p].body.address_id \subseteq AddressIds
              THEN /\ Succeeded(p, "update_customer", 200)
                   /\ \E old \in WithId(pre[p].customer, req[p].id),
                         new \in WithId(customer, req[p].id) :
                          /\ resp[p].body = {CustomerResponse(new)}
                          /\ ShowsUpdate(p, CustomerResponse(new), old,
                                         req[p].body)
              ELSE /\ resp[p] = HTTPException(500, StatementRejected)
                   /\ customer = pre[p].customer

\* C4 witness: {"active": false} alone has updated a customer while another
\* customer and a rental were stored.
C4_ActiveOnlyUpdated ==
    \E p \in SeqProcs :
        /\ Succeeded(p, "update_customer", 200)
        /\ Supplied(req[p].body) = {"active"}
        /\ Cardinality(customer) >= 2
        /\ rental # {}
        /\ \E old \in WithId(pre[p].customer, req[p].id) :
               old.active = 1 /\ old.last_update < pre[p].at

\* C5: delete_customer on a customer no rental refers to is answered 204 and
\* removes the customer; on a customer a rental refers to it is answered 409
\* and changes nothing; on an id with no customer it is answered 404; and
\* get_customer on an id with no customer is answered 404.
C5_DeleteCustomer ==
    \A p \in SeqProcs :
        /\ Ran(p, "delete_customer") =>
               LET old == WithId(pre[p].customer, req[p].id)
                   refs == {r \in pre[p].rental : r.customer_id = req[p].id}
               IN  /\ OthersUnchanged(p)
                   /\ old = {} =>
                          /\ resp[p] = HTTPException(404, "Customer not found")
                          /\ customer = pre[p].customer
                   /\ (old # {} /\ refs = {}) =>
                          /\ Succeeded(p, "delete_customer", 204)
                          /\ WithId(customer, req[p].id) = {}
                   /\ (old # {} /\ refs # {}) =>
                          /\ resp[p].kind = "HTTPException"
                          /\ resp[p].status = 409
                          /\ customer = pre[p].customer
        /\ (Ran(p, "get_customer") /\ WithId(customer, req[p].id) = {}) =>
               resp[p] = HTTPException(404, "Customer not found")

\* C5 witness: the delete of a customer with a rental has been answered 409.
C5_DeleteRefused ==
    \E p \in SeqProcs :
        /\ Ran(p, "delete_customer")
        /\ resp[p].status = 409
        /\ \E r \in rental : r.customer_id = req[p].id

\* C7: update_customer with no field supplied is answered 400 and changes
\* nothing when the customer exists, and 404 when it does not.
C7_EmptyUpdate ==
    \A p \in SeqProcs :
        (Ran(p, "update_customer") /\ Supplied(req[p].body) = {})
        => /\ customer = pre[p].customer
           /\ rental = pre[p].rental
           /\ resp[p] =
                  IF WithId(pre[p].customer, req[p].id) = {}
                  THEN HTTPException(404, "Customer not found")
                  ELSE HTTPException(400, "No data to update")

\* C7 witness: an empty update of an existing customer has been answered 400
\* at a time later than the customer's last_update.
C7_EmptyUpdateRefused ==
    \E p \in SeqProcs :
        /\ Ran(p, "update_customer")
        /\ Supplied(req[p].body) = {}
        /\ resp[p].status = 400
        /\ \E c \in WithId(customer, req[p].id) : c.last_update < now

\* C10: create_customer answers with the fields of the request (active true
\* and email null when omitted), a new customer_id, and create_date and
\* last_update stamped during the request; get_customer of that id, with no
\* update or delete in between, answers 200 with the same record.
C10_CreateThenGet ==
    \A p \in SeqProcs :
        /\ (Ran(p, "create_customer") /\ resp[p].kind = "response") =>
               /\ resp[p].status = 201
               /\ resp[p].body \subseteq pre[p].created
               /\ \E c \in resp[p].body :
                      /\ resp[p].body = {c}
                      /\ WithId(pre[p].customer, c.customer_id) = {}
                      /\ c.store_id = req[p].body.store_id
                      /\ c.first_name = req[p].body.first_name
                      /\ c.last_name = req[p].body.last_name
                      /\ c.email = req[p].body.email
                      /\ c.address_id = req[p].body.address_id
                      /\ c.active = (req[p].body.active # {FALSE})
                      /\ c.create_date \in pre[p].at .. now
                      /\ c.last_update \in pre[p].at .. now
        /\ Ran(p, "get_customer") =>
               \A c \in pre[p].created :
                   c.customer_id = req[p].id => resp[p] = Response(200, {c})

\* C10 witness: a customer created with email and active omitted has been
\* fetched.
C10_CreatedFetched ==
    \E p \in SeqProcs :
        /\ Succeeded(p, "get_customer", 200)
        /\ \E c \in pre[p].created :
               /\ c.customer_id = req[p].id
               /\ c.email = None
               /\ c.active
               /\ c.create_date < now

\* C8: usernames and e-mails of the stored users are unique; a stored user
\* is never removed or changed; a register whose username or e-mail a stored
\* user has is answered 400 and stores nothing, any other goes on to store
\* its user.
C8_RegisterNeverOverwrites ==
    /\ [](\A u \in user, v \in user :
              (u.username = v.username \/ u.email = v.email) => u = v)
    /\ [][/\ \A u \in user : u \in user'
          /\ \A p \in Procs :
                (pc[p] = "rg_insert" /\ pc'[p] # "rg_insert") =>
                    IF \E u \in user :
                           \/ u.username = req[p].body.username
                           \/ u.email = req[p].body.email
                    THEN /\ resp'[p].kind = "HTTPException"
                         /\ resp'[p].status = 400
                         /\ pc'[p] = "idle"
                         /\ pend'[p] = NoWrite
                         /\ user' = user
                    ELSE pc'[p] = "rg_commit"]_vars

\* C8 witness: a register with a stored username and a new e-mail has been
\* answered 400.
C8_DuplicateRefused ==
    \E p \in Procs :
        /\ Ran(p, "register")
        /\ resp[p].status = 400
        /\ \E u \in user : u.username = req[p].body.username
        /\ \A u \in user : u.email # req[p].body.email

\* C9: login answers with a bearer token exactly when a stored user has the
\* username and the password verifies against its hash; the token's subject
\* is that username and its expiry ACCESS_TOKEN_EXPIRE_MINUTES after the
\* time of issue; otherwise it answers 401 with the WWW-Authenticate header
\* and no token.
C9_LoginIssuesToken ==
    [][\A p \in Procs :
          (pc[p] = "lg_auth" /\ pc'[p] # "lg_auth") =>
              IF \E u \in user :
                     /\ u.username = req[p].body.username
                     /\ u.hashed_password.digest =
                            <<u.hashed_password.salt, req[p].body.password>>
              THEN /\ resp'[p].kind = "response"
                   /\ resp'[p].status = 200
                   /\ \E t \in resp'[p].body :
                          /\ resp'[p].body = {t}
                          /\ t.token_type = "bearer"
                          /\ t.access_token.sub = req[p].body.username
                          /\ t.access_token.exp
                                 = now + ACCESS_TOKEN_EXPIRE_MINUTES
                          /\ t.access_token.exp > now
              ELSE /\ resp'[p].kind = "HTTPException"
                   /\ resp'[p].status = 401
                   /\ <<"WWW-Authenticate", "Bearer">> \in resp'[p].headers
                   /\ resp'[p].body = {}]_vars

\* C9 witness: one client holds a token for a user while the other has been
\* answered 401 for the same user with another password.
C9_TokenAndChallenge ==
    \E p \in Procs, q \in Procs :
        /\ Succeeded(p, "login", 200)
        /\ Ran(q, "login")
        /\ resp[q].status = 401
        /\ req[q].body.username = req[p].body.username
        /\ req[q].body.password # req[p].body.password

\* C11: a client whose request has ended, by its response, by a 400, 404 or
\* 409 raised inside the with-block, by a store error turned into 500 or by
\* an exception nothing catches, has no open connection and no uncommitted
\* write; a handler of the customer and rental routes that is under way has
\* its connection open; a failure to connect is answered 500 and leaves no
\* connection open.
C11_ConnectionReleased ==
    \A p \in Procs :
        /\ pc[p] = "idle" => (~conn[p] /\ pend[p] = NoWrite)
        /\ pc[p] \notin {"idle", "lg_auth"} => conn[p]
        /\ (pc[p] = "idle" /\ resp[p].detail = ConnectFailed) =>
               (resp[p].kind = "HTTPException" /\ resp[p].status = 500)

\* C11 witness: an update the store rejected after the connection was opened
\* has been answered 500, and the client's connection is closed.
C11_ClosedAfterStoreError ==
    \E p \in Procs :
        /\ Ran(p, "update_customer")
        /\ resp[p] = HTTPException(500, StatementRejected)
        /\ ~conn[p]

\* C6 (as claimed): every request ends in its response or in an
\* HTTPException of the taxonomy.
C6_EveryRequestEndsInTaxonomy ==
    \A p \in Procs :
        /\ resp[p].kind \in {"none", "response", "HTTPException"}
        /\ resp[p].kind = "HTTPException" =>
               resp[p].status \in {400, 401, 404, 409, 500}

====
